---- MODULE Spec2Model ----
(* Model of the Traefik middleware lambdarequesttransformer:               *)
(* LambdaRequestTransformer.ServeHTTP and generateUUID.                    *)
(* Go strings are sequences of one-character strings (all ASCII, so one    *)
(* character is one byte).                                                 *)
EXTENDS Integers, Sequences, FiniteSets, TLC

(***************************************************************************)
(* Characters and strings                                                  *)
(***************************************************************************)
\* printable ASCII, code 32 (space) to 126 (~), in code order
\* (code 96, the grave accent, is written "grave": the lexer rejects it in a string)
Ascii == <<" ","!","\"","#","$","%","&","'","(",")","*","+",",","-",".","/","0","1","2","3","4","5","6","7","8","9",":",";","<","=",">","?","@","A","B","C","D","E","F","G","H","I","J","K","L","M","N","O","P","Q","R","S","T","U","V","W","X","Y","Z","[","\\","]","^","_">> \o <<"grave">> \o <<"a","b","c","d","e","f","g","h","i","j","k","l","m","n","o","p","q","r","s","t","u","v","w","x","y","z","{","|","}","~">>

AsciiCode ==
  [c \in {Ascii[k] : k \in 1..Len(Ascii)} |-> 31 + (CHOOSE k \in 1..Len(Ascii) : Ascii[k] = c)]

Code(c) == AsciiCode[c]

Chr(n) == Ascii[n - 31]

\* s[from:to] of Go, 0-based, to exclusive
Slice(s, from, to) == SubSeq(s, from + 1, to)

\* strings.Index(s, c) for a one-byte separator: 0-based, -1 when absent
Index(s, c) ==
  IF \E k \in 1..Len(s) : s[k] = c
    THEN (CHOOSE k \in 1..Len(s) : s[k] = c /\ \A m \in 1..(k - 1) : s[m] # c) - 1
    ELSE -1

\* last index of c in s, 0-based, -1 when absent
LastIndex(s, c) ==
  IF \E k \in 1..Len(s) : s[k] = c
    THEN (CHOOSE k \in 1..Len(s) : s[k] = c /\ \A m \in (k + 1)..Len(s) : s[m] # c) - 1
    ELSE -1

RECURSIVE JoinFrom(_, _, _)
\* values[k], sep, values[k+1], sep, ... up to the last value
JoinFrom(values, sep, k) ==
  IF k > Len(values) THEN <<>>
  ELSE IF k = Len(values) THEN values[k]
  ELSE values[k] \o sep \o JoinFrom(values, sep, k + 1)

\* strings.Join(values, sep)
Join(values, sep) == JoinFrom(values, sep, 1)

RECURSIVE SplitFrom(_, _, _)
\* the pieces of s[from:] between occurrences of c
SplitFrom(s, c, from) ==
  IF \E k \in (from + 1)..Len(s) : s[k] = c
    THEN LET k == CHOOSE k \in (from + 1)..Len(s) :
                    s[k] = c /\ \A m \in (from + 1)..(k - 1) : s[m] # c
         IN <<Slice(s, from, k - 1)>> \o SplitFrom(s, c, k)
    ELSE <<Slice(s, from, Len(s))>>

\* strings.Split(s, sep) for a one-byte separator
Split(s, c) == SplitFrom(s, c, 0)

RECURSIVE Itoa(_)
\* fmt.Sprintf("%d", n) and the JSON encoding of an integer, n >= 0
Itoa(n) == IF n < 10 THEN <<Chr(48 + n)>> ELSE Itoa(n \div 10) \o <<Chr(48 + (n % 10))>>

\* two-digit, zero padded
Pad2(n) == <<Chr(48 + (n \div 10)), Chr(48 + (n % 10))>>

Pad4(n) == Pad2(n \div 100) \o Pad2(n % 100)

\* byte order of Go strings
StrLess(a, b) ==
  \/ Len(a) < Len(b) /\ \A k \in 1..Len(a) : a[k] = b[k]
  \/ \E k \in 1..Len(a) :
       /\ k <= Len(b)
       /\ \A m \in 1..(k - 1) : a[m] = b[m]
       /\ Code(a[k]) < Code(b[k])

\* the k-th key of a map in the order encoding/json writes them: sorted
SortedKey(m, k) ==
  CHOOSE x \in DOMAIN m : Cardinality({y \in DOMAIN m : StrLess(y, x)}) = k - 1

HexDigits == <<"0","1","2","3","4","5","6","7","8","9","a","b","c","d","e","f">>

\* %02x of one byte
HexByte(b) == <<HexDigits[(b \div 16) + 1], HexDigits[(b % 16) + 1]>>

\* %x of a byte slice
HexBytes(bs) ==
  [k \in 1..(2 * Len(bs)) |->
     IF k % 2 = 1 THEN HexDigits[(bs[(k + 1) \div 2] \div 16) + 1]
     ELSE HexDigits[(bs[k \div 2] % 16) + 1]]

(***************************************************************************)
(* net/http and net helpers the handler calls                              *)
(***************************************************************************)
IsUpper(c) == Code(c) >= 65 /\ Code(c) <= 90

IsLower(c) == Code(c) >= 97 /\ Code(c) <= 122

ToUpper(c) == IF IsLower(c) THEN Chr(Code(c) - 32) ELSE c

ToLower(c) == IF IsUpper(c) THEN Chr(Code(c) + 32) ELSE c

\* textproto.CanonicalMIMEHeaderKey for keys made of letters, digits and '-'
CanonicalMIMEHeaderKey(key) ==
  [k \in 1..Len(key) |->
     IF k = 1 \/ key[k - 1] = "-" THEN ToUpper(key[k]) ELSE ToLower(key[k])]

\* http.Header.Get: the first value stored under the canonical key, else ""
HeaderGet(h, key) ==
  LET ck == CanonicalMIMEHeaderKey(key)
  IN IF ck \in DOMAIN h /\ Len(h[ck]) > 0 THEN h[ck][1] ELSE <<>>

\* http.Header.Set: the canonical key now holds exactly one value
HeaderSet(h, key, value) ==
  LET ck == CanonicalMIMEHeaderKey(key)
  IN [k \in (DOMAIN h) \cup {ck} |-> IF k = ck THEN <<value>> ELSE h[k]]

\* net.SplitHostPort: [ok, host]
SplitHostPort(hostport) ==
  LET i == LastIndex(hostport, ":")
      fail == [ok |-> FALSE, host |-> <<>>]
      end == Index(hostport, "]")
      bracketed == hostport[1] = "["
      host == IF bracketed THEN Slice(hostport, 1, end) ELSE Slice(hostport, 0, i)
      j == IF bracketed THEN 1 ELSE 0
      k == IF bracketed THEN end + 1 ELSE 0
  IN IF i < 0 THEN fail
     ELSE IF bracketed /\ (end < 0 \/ end + 1 # i) THEN fail
     ELSE IF ~bracketed /\ Index(host, ":") >= 0 THEN fail
     ELSE IF Index(Slice(hostport, j, Len(hostport)), "[") >= 0 THEN fail
     ELSE IF Index(Slice(hostport, k, Len(hostport)), "]") >= 0 THEN fail
     ELSE [ok |-> TRUE, host |-> host]

(***************************************************************************)
(* Derived fields of ServeHTTP                                             *)
(***************************************************************************)
\* a slip: only the first value of each header is kept
headersMap_FirstValue(header) ==
  [h \in DOMAIN header |-> IF Len(header[h]) > 0 THEN header[h][1] ELSE <<>>]

\* headersMap: every entry of req.Header, its values joined by ","
headersMap(header) == [h \in DOMAIN header |-> Join(header[h], <<",">>)]

\* clientIP: the host part of RemoteAddr, or RemoteAddr when it does not parse
clientIP(remoteAddr) ==
  LET r == SplitHostPort(remoteAddr)
  IN IF r.ok THEN r.host ELSE remoteAddr

userAgent(header) == HeaderGet(header, <<"U","s","e","r","-","A","g","e","n","t">>)

sessionID(header) == HeaderGet(header, <<"x","-","s","e","s","s","i","o","n","-","i","d">>)

\* a slip: the session id is appended without the test for ""
identitySrc_Unchecked(header) == <<HeaderGet(header, <<"x","-","s","e","s","s","i","o","n","-","i","d">>)>>

\* identitySrc: the session id when it is not ""
identitySrc(header) ==
  IF sessionID(header) # <<>> THEN <<sessionID(header)>> ELSE <<>>

\* a slip: the port is cut at the last colon
domainName_LastColon(origHost) ==
  LET colonIdx == LastIndex(origHost, ":")
  IN IF colonIdx # -1 THEN Slice(origHost, 0, colonIdx) ELSE origHost

\* domainName: origHost up to its first colon
domainName(origHost) ==
  LET colonIdx == Index(origHost, ":")
  IN IF colonIdx # -1 THEN Slice(origHost, 0, colonIdx) ELSE origHost

\* domainPrefix: the first label when domainName has more than one
domainPrefix(dn) ==
  LET parts == Split(dn, ".")
  IN IF Len(parts) > 1 THEN parts[1] ELSE dn

(***************************************************************************)
(* generateUUID                                                            *)
(***************************************************************************)
\* byte(t >> (i*8)) for an int64 t held as its 8 bytes, least significant
\* first; a shift of 64 or more leaves the sign fill
ShiftByte(t, i) ==
  IF i < 8 THEN t[i + 1] ELSE IF t[8] >= 128 THEN 255 ELSE 0

\* the 16 bytes before the version and variant are set: rand.Read's bytes,
\* or the time fallback when rand.Read fails
uuidSource(rnd) ==
  IF rnd.ok THEN rnd.bytes ELSE [i \in 1..16 |-> ShiftByte(rnd.nanos, i - 1)]

\* a slip: the variant is or-ed in without masking the top bits
uuidBytes_Unmasked(b) ==
  [b EXCEPT ![7] = (b[7] % 16) + 64,
            ![9] = IF (b[9] \div 128) % 2 = 1 THEN b[9] ELSE b[9] + 128]

\* b[6] = (b[6] & 0x0F) | 0x40 ; b[8] = (b[8] & 0x3F) | 0x80
uuidBytes(b) ==
  [b EXCEPT ![7] = (b[7] % 16) + 64, ![9] = (b[9] % 64) + 128]

\* fmt.Sprintf("%08x-%04x-%04x-%04x-%012x", b[0:4], b[4:6], b[6:8], b[8:10], b[10:16])
uuidFormat(b) ==
  HexBytes(SubSeq(b, 1, 4)) \o <<"-">> \o HexBytes(SubSeq(b, 5, 6)) \o <<"-">>
    \o HexBytes(SubSeq(b, 7, 8)) \o <<"-">> \o HexBytes(SubSeq(b, 9, 10)) \o <<"-">>
    \o HexBytes(SubSeq(b, 11, 16))

generateUUID(rnd) == uuidFormat(uuidBytes(uuidSource(rnd)))

(***************************************************************************)
(* time.Now().UTC(): an instant is [sec, nsec] since the Unix epoch        *)
(***************************************************************************)
\* year, month, day of a day count since 1970-01-01
CivilFromDays(days) ==
  LET z == days + 719468
      era == z \div 146097
      doe == z - era * 146097
      yoe == (doe - (doe \div 1460) + (doe \div 36524) - (doe \div 146096)) \div 365
      doy == doe - (365 * yoe + (yoe \div 4) - (yoe \div 100))
      mp == (5 * doy + 2) \div 153
      d == doy - ((153 * mp + 2) \div 5) + 1
      m == IF mp < 10 THEN mp + 3 ELSE mp - 9
      y == yoe + era * 400 + (IF m <= 2 THEN 1 ELSE 0)
  IN [year |-> y, month |-> m, day |-> d]

\* now.Format(time.RFC3339) in UTC
FormatRFC3339(now) ==
  LET c == CivilFromDays(now.sec \div 86400)
      r == now.sec % 86400
  IN Pad4(c.year) \o <<"-">> \o Pad2(c.month) \o <<"-">> \o Pad2(c.day) \o <<"T">>
       \o Pad2(r \div 3600) \o <<":">> \o Pad2((r % 3600) \div 60) \o <<":">> \o Pad2(r % 60) \o <<"Z">>

\* now.UnixNano() / 1e6, an int64 held as [k, u] meaning k*1000 + u
EpochMillis(now) == [k |-> now.sec, u |-> now.nsec \div 1000000]

(***************************************************************************)
(* encoding/json                                                           *)
(***************************************************************************)
\* one character inside a JSON string, as json.Marshal escapes it
EscapeChar(c) ==
  IF c = "\"" THEN <<"\\","\"">>
  ELSE IF c = "\\" THEN <<"\\","\\">>
  ELSE IF c = "<" THEN <<"\\","u","0","0","3","c">>
  ELSE IF c = ">" THEN <<"\\","u","0","0","3","e">>
  ELSE IF c = "&" THEN <<"\\","u","0","0","2","6">>
  ELSE <<c>>

RECURSIVE EscapeFrom(_, _)
EscapeFrom(s, k) == IF k > Len(s) THEN <<>> ELSE EscapeChar(s[k]) \o EscapeFrom(s, k + 1)

EscapeString(s) == EscapeFrom(s, 1)

MarshalString(s) == <<"\"">> \o EscapeString(s) \o <<"\"">>

MarshalBool(b) == IF b THEN <<"t","r","u","e">> ELSE <<"f","a","l","s","e">>

\* the decimal digits of k*1000 + u
MarshalMillis(t) ==
  IF t.k = 0 THEN Itoa(t.u)
  ELSE Itoa(t.k) \o Pad2(t.u \div 10) \o <<Chr(48 + (t.u % 10))>>

RECURSIVE MarshalElems(_, _)
MarshalElems(a, k) ==
  IF k > Len(a) THEN <<>>
  ELSE MarshalString(a[k]) \o (IF k = Len(a) THEN <<>> ELSE <<",">> \o MarshalElems(a, k + 1))

\* a non-nil []string
MarshalStringSlice(a) == <<"[">> \o MarshalElems(a, 1) \o <<"]">>

RECURSIVE MarshalEntries(_, _)
MarshalEntries(m, k) ==
  IF k > Cardinality(DOMAIN m) THEN <<>>
  ELSE MarshalString(SortedKey(m, k)) \o <<":">> \o MarshalString(m[SortedKey(m, k)])
         \o (IF k = Cardinality(DOMAIN m) THEN <<>> ELSE <<",">> \o MarshalEntries(m, k + 1))

\* a map[string]string: keys in sorted order
MarshalStringMap(m) == <<"{">> \o MarshalEntries(m, 1) \o <<"}">>

\* "key":value
Field(key, json) == MarshalString(key) \o <<":">> \o json

\* json.Marshal(event): every map with its keys sorted
MarshalEvent(e) ==
  LET rc == e.requestContext
      http == <<"{">> \o Field(<<"m","e","t","h","o","d">>, MarshalString(rc.http.method)) \o <<",">>
                \o Field(<<"p","a","t","h">>, MarshalString(rc.http.path)) \o <<",">>
                \o Field(<<"p","r","o","t","o","c","o","l">>, MarshalString(rc.http.protocol)) \o <<",">>
                \o Field(<<"s","o","u","r","c","e","I","p">>, MarshalString(rc.http.sourceIp)) \o <<",">>
                \o Field(<<"u","s","e","r","A","g","e","n","t">>, MarshalString(rc.http.userAgent)) \o <<"}">>
      ctx == <<"{">> \o Field(<<"a","c","c","o","u","n","t","I","d">>, MarshalString(rc.accountId)) \o <<",">>
               \o Field(<<"a","p","i","I","d">>, MarshalString(rc.apiId)) \o <<",">>
               \o Field(<<"d","o","m","a","i","n","N","a","m","e">>, MarshalString(rc.domainName)) \o <<",">>
               \o Field(<<"d","o","m","a","i","n","P","r","e","f","i","x">>, MarshalString(rc.domainPrefix)) \o <<",">>
               \o Field(<<"h","t","t","p">>, http) \o <<",">>
               \o Field(<<"r","e","q","u","e","s","t","I","d">>, MarshalString(rc.requestId)) \o <<",">>
               \o Field(<<"r","o","u","t","e","K","e","y">>, MarshalString(rc.routeKey)) \o <<",">>
               \o Field(<<"s","t","a","g","e">>, MarshalString(rc.stage)) \o <<",">>
               \o Field(<<"t","i","m","e">>, MarshalString(rc.time)) \o <<",">>
               \o Field(<<"t","i","m","e","E","p","o","c","h">>, MarshalMillis(rc.timeEpoch)) \o <<"}">>
  IN <<"{">> \o Field(<<"b","o","d","y">>, MarshalString(e.body)) \o <<",">>
       \o Field(<<"h","e","a","d","e","r","s">>, MarshalStringMap(e.headers)) \o <<",">>
       \o Field(<<"i","d","e","n","t","i","t","y","S","o","u","r","c","e">>, MarshalStringSlice(e.identitySource)) \o <<",">>
       \o Field(<<"i","s","B","a","s","e","6","4","E","n","c","o","d","e","d">>, MarshalBool(e.isBase64Encoded)) \o <<",">>
       \o Field(<<"r","a","w","P","a","t","h">>, MarshalString(e.rawPath)) \o <<",">>
       \o Field(<<"r","a","w","Q","u","e","r","y","S","t","r","i","n","g">>, MarshalString(e.rawQueryString)) \o <<",">>
       \o Field(<<"r","e","q","u","e","s","t","C","o","n","t","e","x","t">>, ctx) \o <<",">>
       \o Field(<<"r","o","u","t","e","K","e","y">>, MarshalString(e.routeKey)) \o <<",">>
       \o Field(<<"t","y","p","e">>, MarshalString(e.type)) \o <<",">>
       \o Field(<<"v","e","r","s","i","o","n">>, MarshalString(e.version)) \o <<"}">>

\* fmt.Sprintf("%s %s", origMethod, origPath)
routeKey(origMethod, origPath) == origMethod \o <<" ">> \o origPath

\* a slip: http.method takes the overriding method
buildEvent_Overridden(l, proto) ==
  [version |-> <<"2",".","0">>,
   type |-> <<"R","E","Q","U","E","S","T">>,
   routeKey |-> routeKey(l.origMethod, l.origPath),
   rawPath |-> l.origPath,
   rawQueryString |-> l.origQuery,
   headers |-> l.headersMap,
   requestContext |->
     [accountId |-> <<"l","o","c","a","l">>,
      apiId |-> <<"l","o","c","a","l">>,
      domainName |-> l.domainName,
      domainPrefix |-> l.domainPrefix,
      http |-> [method |-> <<"P","O","S","T">>,
                path |-> l.origPath,
                protocol |-> proto,
                sourceIp |-> l.clientIP,
                userAgent |-> l.userAgent],
      requestId |-> l.requestID,
      routeKey |-> routeKey(l.origMethod, l.origPath),
      stage |-> <<"l","o","c","a","l">>,
      time |-> l.timeStr,
      timeEpoch |-> l.timeEpoch],
   body |-> <<>>,
   isBase64Encoded |-> FALSE,
   identitySource |-> l.identitySrc]

\* the event map built from the saved details and the derived fields
buildEvent(l, proto) ==
  [version |-> <<"2",".","0">>,
   type |-> <<"R","E","Q","U","E","S","T">>,
   routeKey |-> routeKey(l.origMethod, l.origPath),
   rawPath |-> l.origPath,
   rawQueryString |-> l.origQuery,
   headers |-> l.headersMap,
   requestContext |->
     [accountId |-> <<"l","o","c","a","l">>,
      apiId |-> <<"l","o","c","a","l">>,
      domainName |-> l.domainName,
      domainPrefix |-> l.domainPrefix,
      http |-> [method |-> l.origMethod,
                path |-> l.origPath,
                protocol |-> proto,
                sourceIp |-> l.clientIP,
                userAgent |-> l.userAgent],
      requestId |-> l.requestID,
      routeKey |-> routeKey(l.origMethod, l.origPath),
      stage |-> <<"l","o","c","a","l">>,
      time |-> l.timeStr,
      timeEpoch |-> l.timeEpoch],
   body |-> <<>>,
   isBase64Encoded |-> FALSE,
   identitySource |-> l.identitySrc]


(***************************************************************************)
(* State                                                                   *)
(***************************************************************************)
\* number of concurrent ServeHTTP invocations
MaxReqs == 2

Reqs == 1..MaxReqs

InvocationPath == <<"/","2","0","1","5","-","0","3","-","3","1","/","f","u","n","c","t","i","o","n","s","/","f","u","n","c","t","i","o","n","/","i","n","v","o","c","a","t","i","o","n","s">>

MethodPost == <<"P","O","S","T">>

StatusInternalServerError == 500

VARIABLES
  handler,  \* the LambdaRequestTransformer: next, name
  req,      \* req[i]: the *http.Request of invocation i
  entry,    \* entry[i]: req[i] as it was when ServeHTTP was entered
  env,      \* env[i]: what rand.Read, time.Now and json.Marshal return to invocation i
  pc,       \* pc[i]: the statement invocation i executes next
  loc,      \* loc[i]: the local variables of invocation i
  rw,       \* rw[i]: what has been written to the http.ResponseWriter
  handed    \* handed[i]: the requests passed to rt.next.ServeHTTP, in order

vars == <<handler, req, entry, env, pc, loc, rw, handed>>

\* an inbound request as the server delivers it
Inbound(method, path, query, host, header, remoteAddr, body, chunked) ==
  [Method |-> method,
   URLPath |-> path,
   RawQuery |-> query,
   Host |-> host,
   Header |-> header,
   RemoteAddr |-> remoteAddr,
   Proto |-> <<"H","T","T","P","/","1",".","1">>,
   Body |-> body,
   ContentLength |-> IF chunked THEN -1 ELSE Len(body),
   TransferEncoding |-> IF chunked THEN <<<<"c","h","u","n","k","e","d">>>> ELSE <<>>,
   RequestURI |-> IF Len(query) = 0 THEN path ELSE path \o <<"?">> \o query]

\* the locals before any statement has run
NoLocals ==
  [origMethod |-> <<>>, origPath |-> <<>>, origQuery |-> <<>>, origHost |-> <<>>,
   headersMap |-> <<>>, clientIP |-> <<>>, userAgent |-> <<>>, sessionID |-> <<>>,
   identitySrc |-> <<>>, domainName |-> <<>>, domainPrefix |-> <<>>,
   requestID |-> <<>>, timeStr |-> <<>>, timeEpoch |-> [k |-> 0, u |-> 0],
   event |-> <<>>, jsonData |-> <<>>]

NoResponse == [wroteHeader |-> FALSE, status |-> 0, header |-> <<>>, body |-> <<>>]

\* New: the handler holds next and name
New(next, name) == [next |-> next, name |-> name]

(***************************************************************************)
(* ServeHTTP, one action per statement group                               *)
(***************************************************************************)
\* lines 41-79: save the original details and derive the fields
Snapshot(i) ==
  /\ pc[i] = "snapshot"
  /\ LET r == req[i]
         dn == domainName(r.Host)
     IN loc' = [loc EXCEPT ![i] =
                  [@ EXCEPT !.origMethod = r.Method,
                            !.origPath = r.URLPath,
                            !.origQuery = r.RawQuery,
                            !.origHost = r.Host,
                            !.headersMap = headersMap(r.Header),
                            !.clientIP = clientIP(r.RemoteAddr),
                            !.userAgent = userAgent(r.Header),
                            !.sessionID = sessionID(r.Header),
                            !.identitySrc = identitySrc(r.Header),
                            !.domainName = dn,
                            !.domainPrefix = domainPrefix(dn)]]
  /\ pc' = [pc EXCEPT ![i] = "generate"]
  /\ UNCHANGED <<handler, req, entry, env, rw, handed>>

\* lines 82-87: the request id and the timestamp
Generate(i) ==
  /\ pc[i] = "generate"
  /\ loc' = [loc EXCEPT ![i] =
               [@ EXCEPT !.requestID = generateUUID(env[i].rnd),
                         !.timeStr = FormatRFC3339(env[i].now),
                         !.timeEpoch = EpochMillis(env[i].now)]]
  /\ pc' = [pc EXCEPT ![i] = "assemble"]
  /\ UNCHANGED <<handler, req, entry, env, rw, handed>>

\* lines 90-118: the event
Assemble(i) ==
  /\ pc[i] = "assemble"
  /\ loc' = [loc EXCEPT ![i] = [@ EXCEPT !.event = buildEvent(loc[i], req[i].Proto)]]
  /\ pc' = [pc EXCEPT ![i] = "marshal"]
  /\ UNCHANGED <<handler, req, entry, env, rw, handed>>

\* a slip: the request is forwarded as soon as the bytes exist
MarshalOk_CallsNext(i) ==
  /\ pc[i] = "marshal"
  /\ env[i].marshalErr = <<>>
  /\ loc' = [loc EXCEPT ![i] = [@ EXCEPT !.jsonData = MarshalEvent(loc[i].event)]]
  /\ handed' = [handed EXCEPT ![i] = Append(@, req[i])]
  /\ pc' = [pc EXCEPT ![i] = "setBody"]
  /\ UNCHANGED <<handler, req, entry, env, rw>>

\* lines 121-122: json.Marshal returned the bytes
MarshalOk(i) ==
  /\ pc[i] = "marshal"
  /\ env[i].marshalErr = <<>>
  /\ loc' = [loc EXCEPT ![i] = [@ EXCEPT !.jsonData = MarshalEvent(loc[i].event)]]
  /\ pc' = [pc EXCEPT ![i] = "setBody"]
  /\ UNCHANGED <<handler, req, entry, env, rw, handed>>

\* http.Error(w, msg, code)
httpError(w, msg, code) ==
  [wroteHeader |-> TRUE,
   status |-> code,
   header |-> HeaderSet(HeaderSet([k \in (DOMAIN w.header) \ {<<"C","o","n","t","e","n","t","-","L","e","n","g","t","h">>} |-> w.header[k]],
                                  <<"C","o","n","t","e","n","t","-","T","y","p","e">>, <<"t","e","x","t","/","p","l","a","i","n",";"," ","c","h","a","r","s","e","t","=","u","t","f","-","8">>),
                        <<"X","-","C","o","n","t","e","n","t","-","T","y","p","e","-","O","p","t","i","o","n","s">>, <<"n","o","s","n","i","f","f">>),
   body |-> w.body \o msg \o <<"\n">>]

\* a slip: the return after http.Error is missing
MarshalErr_NoReturn(i) ==
  /\ pc[i] = "marshal"
  /\ env[i].marshalErr # <<>>
  /\ rw' = [rw EXCEPT ![i] =
              httpError(@, <<"J","S","O","N"," ","m","a","r","s","h","a","l"," ","e","r","r","o","r",":"," ">> \o env[i].marshalErr,
                        StatusInternalServerError)]
  /\ pc' = [pc EXCEPT ![i] = "setBody"]
  /\ UNCHANGED <<handler, req, entry, env, loc, handed>>

\* lines 122-125: json.Marshal returned an error; answer 500 and return
MarshalErr(i) ==
  /\ pc[i] = "marshal"
  /\ env[i].marshalErr # <<>>
  /\ rw' = [rw EXCEPT ![i] =
              httpError(@, <<"J","S","O","N"," ","m","a","r","s","h","a","l"," ","e","r","r","o","r",":"," ">> \o env[i].marshalErr,
                        StatusInternalServerError)]
  /\ pc' = [pc EXCEPT ![i] = "failed"]
  /\ UNCHANGED <<handler, req, entry, env, loc, handed>>

\* line 128: req.Body = io.NopCloser(strings.NewReader(string(jsonData)))
SetBody(i) ==
  /\ pc[i] = "setBody"
  /\ req' = [req EXCEPT ![i].Body = loc[i].jsonData]
  /\ pc' = [pc EXCEPT ![i] = "setContentLength"]
  /\ UNCHANGED <<handler, entry, env, loc, rw, handed>>

\* line 129: req.ContentLength = int64(len(jsonData))
SetContentLength(i) ==
  /\ pc[i] = "setContentLength"
  /\ req' = [req EXCEPT ![i].ContentLength = Len(loc[i].jsonData)]
  /\ pc' = [pc EXCEPT ![i] = "setContentType"]
  /\ UNCHANGED <<handler, entry, env, loc, rw, handed>>

\* line 130: req.Header.Set("Content-Type", "application/json")
SetContentType(i) ==
  /\ pc[i] = "setContentType"
  /\ req' = [req EXCEPT ![i].Header = HeaderSet(@, <<"C","o","n","t","e","n","t","-","T","y","p","e">>, <<"a","p","p","l","i","c","a","t","i","o","n","/","j","s","o","n">>)]
  /\ pc' = [pc EXCEPT ![i] = "setContentLengthHeader"]
  /\ UNCHANGED <<handler, entry, env, loc, rw, handed>>

\* a slip: Header.Add instead of Header.Set, the inbound value stays
SetContentLengthHeader_Add(i) ==
  /\ pc[i] = "setContentLengthHeader"
  /\ req' = [req EXCEPT ![i].Header =
               IF <<"C","o","n","t","e","n","t","-","L","e","n","g","t","h">> \in DOMAIN @
                 THEN [@ EXCEPT ![<<"C","o","n","t","e","n","t","-","L","e","n","g","t","h">>] = Append(@, Itoa(Len(loc[i].jsonData)))]
                 ELSE HeaderSet(@, <<"C","o","n","t","e","n","t","-","L","e","n","g","t","h">>, Itoa(Len(loc[i].jsonData)))]
  /\ pc' = [pc EXCEPT ![i] = "setMethod"]
  /\ UNCHANGED <<handler, entry, env, loc, rw, handed>>

\* line 131: req.Header.Set("Content-Length", fmt.Sprintf("%d", len(jsonData)))
SetContentLengthHeader(i) ==
  /\ pc[i] = "setContentLengthHeader"
  /\ req' = [req EXCEPT ![i].Header = HeaderSet(@, <<"C","o","n","t","e","n","t","-","L","e","n","g","t","h">>, Itoa(Len(loc[i].jsonData)))]
  /\ pc' = [pc EXCEPT ![i] = "setMethod"]
  /\ UNCHANGED <<handler, entry, env, loc, rw, handed>>

\* a slip: one request object shared by the invocations
SetMethod_Shared(i) ==
  /\ pc[i] = "setMethod"
  /\ req' = [j \in Reqs |-> [req[j] EXCEPT !.Method = MethodPost]]
  /\ pc' = [pc EXCEPT ![i] = "clearTransferEncoding"]
  /\ UNCHANGED <<handler, entry, env, loc, rw, handed>>

\* line 132: req.Method = http.MethodPost
SetMethod(i) ==
  /\ pc[i] = "setMethod"
  /\ req' = [req EXCEPT ![i].Method = MethodPost]
  /\ pc' = [pc EXCEPT ![i] = "clearTransferEncoding"]
  /\ UNCHANGED <<handler, entry, env, loc, rw, handed>>

\* line 133: req.TransferEncoding = nil
ClearTransferEncoding(i) ==
  /\ pc[i] = "clearTransferEncoding"
  /\ req' = [req EXCEPT ![i].TransferEncoding = <<>>]
  /\ pc' = [pc EXCEPT ![i] = "setRequestURI"]
  /\ UNCHANGED <<handler, entry, env, loc, rw, handed>>

\* a slip: the fixed path goes to URL.Path and RequestURI is left alone
SetRequestURI_URLPath(i) ==
  /\ pc[i] = "setRequestURI"
  /\ req' = [req EXCEPT ![i].URLPath = InvocationPath]
  /\ pc' = [pc EXCEPT ![i] = "callNext"]
  /\ UNCHANGED <<handler, entry, env, loc, rw, handed>>

\* line 136: req.RequestURI = "/2015-03-31/functions/function/invocations"
SetRequestURI(i) ==
  /\ pc[i] = "setRequestURI"
  /\ req' = [req EXCEPT ![i].RequestURI = InvocationPath]
  /\ pc' = [pc EXCEPT ![i] = "callNext"]
  /\ UNCHANGED <<handler, entry, env, loc, rw, handed>>

\* line 139: rt.next.ServeHTTP(rw, req), then return
CallNext(i) ==
  /\ pc[i] = "callNext"
  /\ handed' = [handed EXCEPT ![i] = Append(@, req[i])]
  /\ pc' = [pc EXCEPT ![i] = "done"]
  /\ UNCHANGED <<handler, req, entry, env, loc, rw>>

Next ==
  \E i \in Reqs :
    \/ Snapshot(i)
    \/ Generate(i)
    \/ Assemble(i)
    \/ MarshalOk(i)
    \/ MarshalErr(i)
    \/ SetBody(i)
    \/ SetContentLength(i)
    \/ SetContentType(i)
    \/ SetContentLengthHeader(i)
    \/ SetMethod(i)
    \/ ClearTransferEncoding(i)
    \/ SetRequestURI(i)
    \/ CallNext(i)

(***************************************************************************)
(* Inputs: inbound requests and what the environment returns               *)
(***************************************************************************)
NoRandom == [i \in 1..16 |-> 0]

NoNanos == [i \in 1..8 |-> 0]

\* rand.Read filled b
RandomOk(bytes) == [ok |-> TRUE, bytes |-> bytes, nanos |-> NoNanos]

\* rand.Read failed; time.Now().UnixNano() returned nanos
RandomFailed(nanos) == [ok |-> FALSE, bytes |-> NoRandom, nanos |-> nanos]

\* 2026-10-29T12:00:00.123456789Z as an int64 of nanoseconds
SampleNanos == <<21, 77, 224, 23, 75, 254, 226, 24>>

SampleBytes == [i \in 1..16 |-> (37 * i + 11) % 256]

SampleNow == [sec |-> 1793275200, nsec |-> 123456789]

LeapNow == [sec |-> 951782399, nsec |-> 999999999]

MarshalFailure == <<"j","s","o","n",":"," ","u","n","s","u","p","p","o","r","t","e","d"," ","v","a","l","u","e">>

EnvOk == [rnd |-> RandomOk(SampleBytes), now |-> SampleNow, marshalErr |-> <<>>]

EnvFallback == [rnd |-> RandomFailed(SampleNanos), now |-> LeapNow, marshalErr |-> <<>>]

EnvMarshalErr == [rnd |-> RandomOk(SampleBytes), now |-> SampleNow, marshalErr |-> MarshalFailure]

BrowserHeader ==
  (<<"U","s","e","r","-","A","g","e","n","t">> :> <<<<"c","u","r","l","/","8",".","0">>>>) @@ (<<"X","-","S","e","s","s","i","o","n","-","I","d">> :> <<<<"s","e","s","s","-","4","2">>>>)
    @@ (<<"A","c","c","e","p","t">> :> <<<<"a">>, <<"b">>, <<"c">>>>)

UploadHeader ==
  (<<"C","o","n","t","e","n","t","-","T","y","p","e">> :> <<<<"t","e","x","t","/","p","l","a","i","n">>>>) @@ (<<"C","o","n","t","e","n","t","-","L","e","n","g","t","h">> :> <<<<"2">>>>)
    @@ (<<"X","-","T","a","g">> :> <<<<"<","\"","a","&","b","\"",">">>>>)

GetRequest ==
  Inbound(<<"G","E","T">>, <<"/","i","t","e","m","s","/","7">>, <<"q","=","1","&","r","=","2">>, <<"a","p","i",".","e","x","a","m","p","l","e",".","c","o","m",":","8","4","4","3">>, BrowserHeader,
          <<"1","0",".","0",".","0",".","1",":","5","1","2","3","4">>, <<>>, FALSE)

PutRequest ==
  Inbound(<<"P","U","T">>, <<"/","u","p","l","o","a","d">>, <<>>, <<"l","o","c","a","l","h","o","s","t">>, UploadHeader, <<"[",":",":","1","]",":","9","0","0","0">>, <<"h","i">>, FALSE)

ChunkedRequest ==
  Inbound(<<"P","O","S","T">>, <<"/">>, <<>>, <<"[",":",":","f","f","f","f",":","1",".","2",".","3",".","4","]",":","8","0">>, <<>>, <<"@">>, <<"d","a","t","a">>, TRUE)

NoRequest == Inbound(<<>>, <<>>, <<>>, <<>>, <<>>, <<>>, <<>>, FALSE)

CoreInputs ==
  {[req |-> GetRequest, env |-> EnvOk],
   [req |-> PutRequest, env |-> EnvFallback],
   [req |-> ChunkedRequest, env |-> EnvMarshalErr]}

\* the invocations in active are entered with inputs drawn from Inputs
InitWith(active, Inputs) ==
  /\ handler = New("next", "lambdarequesttransformer")
  /\ \E f \in [active -> Inputs] :
       /\ req = [i \in Reqs |-> IF i \in active THEN f[i].req ELSE NoRequest]
       /\ env = [i \in Reqs |-> IF i \in active THEN f[i].env ELSE EnvOk]
  /\ entry = req
  /\ pc = [i \in Reqs |-> IF i \in active THEN "snapshot" ELSE "idle"]
  /\ loc = [i \in Reqs |-> NoLocals]
  /\ rw = [i \in Reqs |-> NoResponse]
  /\ handed = [i \in Reqs |-> <<>>]

\* concurrent invocations on distinct requests
Init == InitWith(Reqs, CoreInputs)

Spec == Init /\ [][Next]_vars

FairInputs ==
  {[req |-> GetRequest, env |-> EnvOk], [req |-> ChunkedRequest, env |-> EnvMarshalErr]}

InitFair == InitWith(Reqs, FairInputs)

\* the scheduler keeps running an invocation that can take a step
FairSpec == InitFair /\ [][Next]_vars /\ WF_vars(Next)

\* one invocation, the Host varied over every short string of HostAlphabet
MaxHostLen == 4

HostAlphabet == {"a", "b", ".", ":"}

RECURSIVE StringsUpTo(_, _)
\* the strings over alphabet of length at most n
StringsUpTo(alphabet, n) ==
  IF n = 0 THEN {<<>>}
  ELSE LET shorter == StringsUpTo(alphabet, n - 1)
       IN shorter \cup {Append(x, c) : x \in shorter, c \in alphabet}

Hosts ==
  StringsUpTo(HostAlphabet, MaxHostLen)
    \cup {<<"a","p","i",".","e","x","a","m","p","l","e",".","c","o","m",":","8","4","4","3">>, <<"l","o","c","a","l","h","o","s","t">>, <<"[",":",":","1","]",":","8","0","8","0">>, <<"[",":",":","f","f","f","f",":","1",".","2",".","3",".","4","]",":","8","0">>}

HostInputs ==
  {[req |-> Inbound(<<"G","E","T">>, <<"/">>, <<>>, h, <<>>, <<"1","0",".","0",".","0",".","1",":","5","1","2","3","4">>, <<>>, FALSE), env |-> EnvOk] :
     h \in Hosts}
    \cup {[req |-> GetRequest, env |-> EnvMarshalErr]}

InitHost == InitWith({1}, HostInputs)

SpecHost == InitHost /\ [][Next]_vars

\* one invocation, the header collection varied: every map from a subset of
\* HeaderNames to a list of at most MaxValues values
MaxValues == 2

HeaderNames == {<<"X","-","S","e","s","s","i","o","n","-","I","d">>, <<"A","c","c","e","p","t">>, <<"C","o","n","t","e","n","t","-","T","y","p","e">>}

HeaderValues == {<<"a">>, <<>>}

RECURSIVE ListsUpTo(_, _)
\* the lists of elements of S of length at most n
ListsUpTo(S, n) ==
  IF n = 0 THEN {<<>>}
  ELSE LET shorter == ListsUpTo(S, n - 1)
       IN shorter \cup {Append(x, v) : x \in shorter, v \in S}

HeaderCollections ==
  UNION {[names -> ListsUpTo(HeaderValues, MaxValues)] : names \in SUBSET HeaderNames}
    \cup {BrowserHeader, UploadHeader}

HeaderInputs ==
  {[req |-> Inbound(<<"G","E","T">>, <<"/">>, <<>>, <<"l","o","c","a","l","h","o","s","t">>, h, <<"1","0",".","0",".","0",".","1",":","5","1","2","3","4">>, <<>>, FALSE),
    env |-> EnvOk] : h \in HeaderCollections}
    \cup {[req |-> GetRequest, env |-> EnvMarshalErr]}

InitHeaders == InitWith({1}, HeaderInputs)

SpecHeaders == InitHeaders /\ [][Next]_vars

\* one invocation, the random bytes and the fallback timestamp varied
PatternBytes(p, b6, b8) ==
  [i \in 1..16 |-> IF i = 7 THEN b6 ELSE IF i = 9 THEN b8 ELSE (p * i + 11) % 256]

RandomInputs ==
  {RandomOk(PatternBytes(p, b, 0)) : p \in {0, 37}, b \in 0..255}
    \cup {RandomOk(PatternBytes(p, 0, b)) : p \in {0, 37}, b \in 0..255}
    \cup {RandomOk(PatternBytes(255, 255, 255))}
    \cup {RandomFailed(n) :
            n \in {SampleNanos, NoNanos, <<255, 255, 255, 255, 255, 255, 255, 127>>,
                   <<1, 2, 3, 4, 5, 6, 79, 8>>, <<0, 0, 0, 0, 0, 0, 0, 128>>}}

UUIDInputs ==
  {[req |-> GetRequest, env |-> [rnd |-> r, now |-> SampleNow, marshalErr |-> <<>>]] :
     r \in RandomInputs}
    \cup {[req |-> GetRequest, env |-> EnvMarshalErr]}

InitUUID == InitWith({1}, UUIDInputs)

SpecUUID == InitUUID /\ [][Next]_vars

\* one invocation, inbound method, path, query, body and headers varied
RewriteInputs ==
  {[req |-> Inbound(m, p, q, <<"e","x","a","m","p","l","e",".","c","o","m">>, h, <<"1","0",".","0",".","0",".","1",":","5","1","2","3","4">>, b[1], b[2]), env |-> e] :
     m \in {<<"G","E","T">>, <<"P","O","S","T">>, <<"D","E","L","E","T","E">>},
     p \in {<<>>, <<"/">>, <<"/","i","t","e","m","s","/","7">>, InvocationPath},
     q \in {<<>>, <<"q","=","1">>},
     h \in {<<>>, BrowserHeader, UploadHeader},
     b \in {<< <<>>, FALSE >>, << <<"h","i">>, FALSE >>, << <<"d","a","t","a">>, TRUE >>},
     e \in {EnvOk, EnvMarshalErr}}

InitRewrite == InitWith({1}, RewriteInputs)

SpecRewrite == InitRewrite /\ [][Next]_vars

(***************************************************************************)
(* Properties                                                              *)
(***************************************************************************)
Building == {"snapshot", "generate", "assemble", "marshal"}

Forwarding ==
  {"setBody", "setContentLength", "setContentType", "setContentLengthHeader",
   "setMethod", "clearTransferEncoding", "setRequestURI", "callNext", "done"}

\* the decimal number a string of digits denotes
RECURSIVE DecimalValue(_)
DecimalValue(s) ==
  IF Len(s) = 0 THEN 0
  ELSE 10 * DecimalValue(SubSeq(s, 1, Len(s) - 1)) + (Code(s[Len(s)]) - 48)

IsDecimal(s) == Len(s) > 0 /\ \A k \in 1..Len(s) : Code(s[k]) \in 48..57

\* C1: every request handed to the next handler has the request target
\* /2015-03-31/functions/function/invocations, whatever the inbound path was.
C1_ForwardedTarget ==
  \A i \in Reqs : \A k \in 1..Len(handed[i]) :
    handed[i][k].RequestURI = <<"/","2","0","1","5","-","0","3","-","3","1","/","f","u","n","c","t","i","o","n","s","/","f","u","n","c","t","i","o","n","/","i","n","v","o","c","a","t","i","o","n","s">>

C1_Witness ==
  \E i \in Reqs :
    /\ Len(handed[i]) = 1
    /\ entry[i].URLPath = <<"/","i","t","e","m","s","/","7">>
    /\ entry[i].RequestURI = <<"/","i","t","e","m","s","/","7","?","q","=","1">>
    /\ handed[i][1].RequestURI = <<"/","2","0","1","5","-","0","3","-","3","1","/","f","u","n","c","t","i","o","n","s","/","f","u","n","c","t","i","o","n","/","i","n","v","o","c","a","t","i","o","n","s">>

\* C2: every request handed to the next handler has method POST, the
\* serialized event as its body, ContentLength and the Content-Length header
\* equal to the body's byte count, Content-Type application/json and no
\* transfer encoding, whatever the inbound request was.
C2_ForwardedShape ==
  \A i \in Reqs : \A k \in 1..Len(handed[i]) :
    LET h == handed[i][k]
    IN /\ h.Method = <<"P","O","S","T">>
       /\ h.Body = MarshalEvent(loc[i].event)
       /\ h.ContentLength = Len(h.Body)
       /\ <<"C","o","n","t","e","n","t","-","L","e","n","g","t","h">> \in DOMAIN h.Header
       /\ Len(h.Header[<<"C","o","n","t","e","n","t","-","L","e","n","g","t","h">>]) = 1
       /\ IsDecimal(h.Header[<<"C","o","n","t","e","n","t","-","L","e","n","g","t","h">>][1])
       /\ DecimalValue(h.Header[<<"C","o","n","t","e","n","t","-","L","e","n","g","t","h">>][1]) = Len(h.Body)
       /\ <<"C","o","n","t","e","n","t","-","T","y","p","e">> \in DOMAIN h.Header
       /\ h.Header[<<"C","o","n","t","e","n","t","-","T","y","p","e">>] = <<<<"a","p","p","l","i","c","a","t","i","o","n","/","j","s","o","n">>>>
       /\ h.TransferEncoding = <<>>

C2_Witness ==
  \E i \in Reqs :
    /\ Len(handed[i]) = 1
    /\ entry[i].Method = <<"D","E","L","E","T","E">>
    /\ entry[i].TransferEncoding = <<<<"c","h","u","n","k","e","d">>>>
    /\ entry[i].ContentLength = -1
    /\ entry[i].Header = UploadHeader
    /\ handed[i][1].Method = <<"P","O","S","T">>
    /\ handed[i][1].ContentLength > 100

\* C3: when serialization fails the next handler is never called, the
\* request stays as it was on entry, and once the marshal step is over the
\* caller has a 500 response with a plain-text message.
C3_MarshalFailure ==
  \A i \in Reqs :
    env[i].marshalErr # <<>> =>
      /\ handed[i] = <<>>
      /\ req[i] = entry[i]
      /\ pc[i] \notin Building =>
           /\ pc[i] = "failed"
           /\ rw[i].wroteHeader
           /\ rw[i].status = 500
           /\ rw[i].header[<<"C","o","n","t","e","n","t","-","T","y","p","e">>] = <<<<"t","e","x","t","/","p","l","a","i","n",";"," ","c","h","a","r","s","e","t","=","u","t","f","-","8">>>>
           /\ rw[i].body = <<"J","S","O","N"," ","m","a","r","s","h","a","l"," ","e","r","r","o","r",":"," ">> \o env[i].marshalErr \o <<"\n">>

C3_Witness ==
  \E i \in Reqs :
    /\ pc[i] = "failed"
    /\ rw[i].status = 500
    /\ entry[i].Method = <<"D","E","L","E","T","E">>
    /\ entry[i].Body = <<"d","a","t","a">>
    /\ req[i] = entry[i]

\* C5: the event's routeKey and requestContext.routeKey are the original
\* method, one space, the original path; http.method, http.path and rawPath
\* are the original method and path; this still holds of the body that is
\* forwarded after the method and the target were overridden.
C5_OriginalMethodAndPath ==
  \A i \in Reqs :
    pc[i] \in Forwarding =>
      LET e == loc[i].event
          key == entry[i].Method \o <<" ">> \o entry[i].URLPath
      IN /\ e.routeKey = key
         /\ e.requestContext.routeKey = key
         /\ e.requestContext.http.method = entry[i].Method
         /\ e.requestContext.http.path = entry[i].URLPath
         /\ e.rawPath = entry[i].URLPath
         /\ \A k \in 1..Len(handed[i]) : handed[i][k].Body = MarshalEvent(e)

C5_Witness ==
  \E i \in Reqs :
    /\ pc[i] = "done"
    /\ entry[i].Method = <<"G","E","T">>
    /\ entry[i].URLPath = <<"/","i","t","e","m","s","/","7">>
    /\ req[i].Method = <<"P","O","S","T">>
    /\ req[i].RequestURI = InvocationPath
    /\ loc[i].event.routeKey = <<"G","E","T"," ","/","i","t","e","m","s","/","7">>
    /\ loc[i].event.requestContext.http.method = <<"G","E","T">>

Phase(p) ==
  IF p \in Building THEN "Building"
  ELSE IF p \in Forwarding THEN "Forwarding"
  ELSE IF p = "failed" THEN "Failed"
  ELSE "Idle"

\* the request as the rewrite leaves it, given the bytes
Rewritten(r, jsonData) ==
  /\ r.Body = jsonData
  /\ r.ContentLength = Len(jsonData)
  /\ r.Header[<<"C","o","n","t","e","n","t","-","T","y","p","e">>] = <<<<"a","p","p","l","i","c","a","t","i","o","n","/","j","s","o","n">>>>
  /\ DecimalValue(r.Header[<<"C","o","n","t","e","n","t","-","L","e","n","g","t","h">>][1]) = Len(jsonData)
  /\ r.Method = <<"P","O","S","T">>
  /\ r.TransferEncoding = <<>>
  /\ r.RequestURI = <<"/","2","0","1","5","-","0","3","-","3","1","/","f","u","n","c","t","i","o","n","s","/","f","u","n","c","t","i","o","n","/","i","n","v","o","c","a","t","i","o","n","s">>

C4_Outcomes ==
  \A i \in Reqs :
    /\ Len(handed[i]) <= 1
    /\ pc[i] \in Forwarding => env[i].marshalErr = <<>> /\ rw[i] = NoResponse
    /\ pc[i] = "failed" => env[i].marshalErr # <<>> /\ handed[i] = <<>> /\ rw[i].wroteHeader
    /\ pc[i] = "done" <=> Len(handed[i]) = 1

C4_Steps ==
  \A i \in Reqs :
    /\ Phase(pc[i]) \in {"Forwarding", "Failed"} => Phase(pc'[i]) = Phase(pc[i])
    /\ handed'[i] # handed[i] =>
         /\ Rewritten(req[i], loc[i].jsonData)
         /\ handed'[i] = <<req[i]>>
         /\ req'[i] = req[i]
    /\ pc[i] \in {"done", "failed"} =>
         /\ pc'[i] = pc[i] /\ req'[i] = req[i]
         /\ rw'[i] = rw[i] /\ handed'[i] = handed[i]

\* C4: an invocation leaves Building for Forwarding or for Failed and never
\* changes phase again; Failed is entered only when serialization fails; on
\* success the next handler is called exactly once, with the fully rewritten
\* request, as the last step, and the component writes no response; every
\* invocation ends in exactly one of the two outcomes.
C4_StateMachine ==
  /\ []C4_Outcomes
  /\ [][C4_Steps]_vars
  /\ \A i \in Reqs : <>(pc[i] \in {"done", "failed"})

C4_Witness ==
  /\ pc[1] = "done" /\ Len(handed[1]) = 1 /\ rw[1] = NoResponse
  /\ entry[1].Method = <<"G","E","T">>
  /\ pc[2] = "failed" /\ handed[2] = <<>> /\ rw[2].status = 500

\* the locals, event and rewritten request of an invocation that runs alone
SoloLocals(r, e) ==
  LET dn == domainName(r.Host)
      l == [NoLocals EXCEPT !.origMethod = r.Method, !.origPath = r.URLPath,
                            !.origQuery = r.RawQuery, !.origHost = r.Host,
                            !.headersMap = headersMap(r.Header),
                            !.clientIP = clientIP(r.RemoteAddr),
                            !.userAgent = userAgent(r.Header),
                            !.sessionID = sessionID(r.Header),
                            !.identitySrc = identitySrc(r.Header),
                            !.domainName = dn, !.domainPrefix = domainPrefix(dn),
                            !.requestID = generateUUID(e.rnd),
                            !.timeStr = FormatRFC3339(e.now),
                            !.timeEpoch = EpochMillis(e.now)]
  IN [l EXCEPT !.event = buildEvent(l, r.Proto)]

SoloRequest(r, e) ==
  LET json == MarshalEvent(SoloLocals(r, e).event)
  IN [r EXCEPT !.Body = json,
               !.ContentLength = Len(json),
               !.Header = HeaderSet(HeaderSet(r.Header, <<"C","o","n","t","e","n","t","-","T","y","p","e">>, <<"a","p","p","l","i","c","a","t","i","o","n","/","j","s","o","n">>),
                                    <<"C","o","n","t","e","n","t","-","L","e","n","g","t","h">>, Itoa(Len(json))),
               !.Method = <<"P","O","S","T">>,
               !.TransferEncoding = <<>>,
               !.RequestURI = InvocationPath]

C10_Isolated ==
  \A i \in Reqs :
    /\ pc[i] \in Forwarding => loc[i].event = SoloLocals(entry[i], env[i]).event
    /\ pc[i] = "done" =>
         /\ req[i] = SoloRequest(entry[i], env[i])
         /\ handed[i] = <<SoloRequest(entry[i], env[i])>>
    /\ pc[i] = "failed" => req[i] = entry[i]

C10_OwnStateOnly ==
  /\ handler' = handler
  /\ \E i \in Reqs : \A j \in Reqs \ {i} :
       /\ req'[j] = req[j] /\ loc'[j] = loc[j] /\ pc'[j] = pc[j]
       /\ rw'[j] = rw[j] /\ handed'[j] = handed[j]

\* C10: under every interleaving of concurrent invocations the handler's
\* fields next and name never change, each step touches the request,
\* response and locals of one invocation only, and the event and rewritten
\* request of each invocation are those it produces when it runs alone with
\* the same random bytes and clock readings.
C10_Concurrency == []C10_Isolated /\ [][C10_OwnStateOnly]_vars

C10_Witness ==
  /\ pc[1] = "done" /\ pc[2] = "setMethod"
  /\ entry[1] = GetRequest /\ entry[2] = PutRequest
  /\ req[1].Method = <<"P","O","S","T">> /\ req[2].Method = <<"P","U","T">>
  /\ req[1].Body # req[2].Body

\* the longest prefix of s without c
BeforeFirst(s, c) ==
  SubSeq(s, 1, CHOOSE n \in 0..Len(s) :
                 /\ \A k \in 1..n : s[k] # c
                 /\ n = Len(s) \/ s[n + 1] = c)

Contains(s, c) == \E k \in 1..Len(s) : s[k] = c

\* C6 as stated: domainName is the Host cut at its first colon; a Host with a
\* '.' has the prefix before the Host's first '.'; a Host without '.' has
\* the port-stripped Host as prefix.
C6_AsStated ==
  \A i \in Reqs :
    pc[i] \in Forwarding =>
      LET host == entry[i].Host
          rc == loc[i].event.requestContext
      IN /\ rc.domainName = BeforeFirst(host, ":")
         /\ Contains(host, ".") => rc.domainPrefix = BeforeFirst(host, ".")
         /\ ~Contains(host, ".") => rc.domainPrefix = BeforeFirst(host, ":")

\* C6 amended: domainName is the Host cut at its first colon; when
\* domainName has a '.', domainPrefix is domainName up to its first '.';
\* otherwise domainPrefix is domainName.
C6_DomainSplit ==
  \A i \in Reqs :
    pc[i] \in Forwarding =>
      LET host == entry[i].Host
          rc == loc[i].event.requestContext
      IN /\ rc.domainName = BeforeFirst(host, ":")
         /\ Contains(rc.domainName, ".") =>
              rc.domainPrefix = BeforeFirst(rc.domainName, ".")
         /\ ~Contains(rc.domainName, ".") => rc.domainPrefix = rc.domainName
         /\ host = <<"a","p","i",".","e","x","a","m","p","l","e",".","c","o","m",":","8","4","4","3">> =>
              rc.domainName = <<"a","p","i",".","e","x","a","m","p","l","e",".","c","o","m">> /\ rc.domainPrefix = <<"a","p","i">>
         /\ host = <<"l","o","c","a","l","h","o","s","t">> =>
              rc.domainName = <<"l","o","c","a","l","h","o","s","t">> /\ rc.domainPrefix = <<"l","o","c","a","l","h","o","s","t">>

C6_Witness ==
  \E i \in Reqs :
    /\ pc[i] = "done"
    /\ entry[i].Host = <<"[",":",":","f","f","f","f",":","1",".","2",".","3",".","4","]",":","8","0">>
    /\ loc[i].event.requestContext.domainName = <<"[">>
    /\ loc[i].event.requestContext.domainPrefix = <<"[">>

\* the values of one header folded left to right with ','
Folded(values) ==
  LET f[n \in 0..Len(values)] ==
        IF n = 0 THEN <<>>
        ELSE IF n = 1 THEN values[1]
        ELSE f[n - 1] \o <<",">> \o values[n]
  IN f[Len(values)]

\* C7 as stated: the event's headers have one entry per inbound header name
\* that has at least one value, holding the values joined with ','; a name
\* with zero values is omitted; the headers the rewrite sets are not in it.
C7_AsStated ==
  \A i \in Reqs :
    pc[i] \in Forwarding =>
      LET in == entry[i].Header
          out == loc[i].event.headers
      IN /\ DOMAIN out = {h \in DOMAIN in : Len(in[h]) > 0}
         /\ \A h \in DOMAIN out : out[h] = Folded(in[h])

\* C7 amended: the event's headers have one entry per name of the inbound
\* collection, holding that name's values joined with ',' in order; a name
\* with zero values is mapped to the empty string; the headers the rewrite
\* sets later are not in it.
C7_HeaderFold ==
  \A i \in Reqs :
    pc[i] \in Forwarding =>
      LET in == entry[i].Header
          out == loc[i].event.headers
      IN /\ DOMAIN out = DOMAIN in
         /\ \A h \in DOMAIN out : out[h] = Folded(in[h])
         /\ \A h \in DOMAIN in : Len(in[h]) = 0 => out[h] = <<>>
         /\ in = BrowserHeader => out[<<"A","c","c","e","p","t">>] = <<"a",",","b",",","c">>
         /\ \A h \in {<<"C","o","n","t","e","n","t","-","T","y","p","e">>, <<"C","o","n","t","e","n","t","-","L","e","n","g","t","h">>} :
              /\ h \notin DOMAIN in => h \notin DOMAIN out
              /\ h \in DOMAIN in /\ pc[i] = "done" =>
                   out[h] = Folded(in[h]) /\ Len(req[i].Header[h]) = 1

C7_Witness ==
  \E i \in Reqs :
    /\ pc[i] = "done"
    /\ entry[i].Header = (<<"A","c","c","e","p","t">> :> <<<<"a">>, <<>>>>) @@ (<<"X","-","S","e","s","s","i","o","n","-","I","d">> :> <<>>)
    /\ loc[i].event.headers = (<<"A","c","c","e","p","t">> :> <<"a",",">>) @@ (<<"X","-","S","e","s","s","i","o","n","-","I","d">> :> <<>>)
    /\ <<"C","o","n","t","e","n","t","-","T","y","p","e">> \in DOMAIN req[i].Header
    /\ <<"C","o","n","t","e","n","t","-","L","e","n","g","t","h">> \in DOMAIN req[i].Header

\* C8 as stated: identitySource holds the x-session-id value when the header
\* is present, and is empty otherwise; it never has more than one element.
C8_AsStated ==
  \A i \in Reqs :
    pc[i] \in Forwarding =>
      LET in == entry[i].Header
          present == <<"X","-","S","e","s","s","i","o","n","-","I","d">> \in DOMAIN in /\ Len(in[<<"X","-","S","e","s","s","i","o","n","-","I","d">>]) > 0
          out == loc[i].event.identitySource
      IN /\ Len(out) <= 1
         /\ present => out = <<in[<<"X","-","S","e","s","s","i","o","n","-","I","d">>][1]>>
         /\ ~present => out = <<>>

\* C8 amended: identitySource holds the first x-session-id value when the
\* header is present and that value is not empty, and is empty otherwise (so
\* also for a present header whose first value is empty); it never has more
\* than one element.
C8_IdentitySource ==
  \A i \in Reqs :
    pc[i] \in Forwarding =>
      LET in == entry[i].Header
          present == <<"X","-","S","e","s","s","i","o","n","-","I","d">> \in DOMAIN in /\ Len(in[<<"X","-","S","e","s","s","i","o","n","-","I","d">>]) > 0
          out == loc[i].event.identitySource
      IN /\ Len(out) <= 1
         /\ present /\ in[<<"X","-","S","e","s","s","i","o","n","-","I","d">>][1] # <<>> => out = <<in[<<"X","-","S","e","s","s","i","o","n","-","I","d">>][1]>>
         /\ present /\ in[<<"X","-","S","e","s","s","i","o","n","-","I","d">>][1] = <<>> => out = <<>>
         /\ ~present => out = <<>>
         /\ in = BrowserHeader => out = <<<<"s","e","s","s","-","4","2">>>>

C8_Witness ==
  \E i \in Reqs :
    /\ pc[i] = "done"
    /\ entry[i].Header = (<<"X","-","S","e","s","s","i","o","n","-","I","d">> :> <<<<>>, <<"a">>>>)
    /\ loc[i].event.identitySource = <<>>

HexValue(c) == (CHOOSE n \in 1..16 : HexDigits[n] = c) - 1

IsLowerHex(c) == \E n \in 1..16 : HexDigits[n] = c

HyphenPositions == {9, 14, 19, 24}

\* byte k (1..16) read back from the 36-character text
UUIDByte(u, k) ==
  LET digits == <<1, 3, 5, 7, 10, 12, 15, 17, 20, 22, 25, 27, 29, 31, 33, 35>>
  IN 16 * HexValue(u[digits[k]]) + HexValue(u[digits[k] + 1])

\* the 16 input bytes: rand.Read's, or byte k-1 of the timestamp shifted
\* right by 8*(k-1) bits (for shifts of 64 or more the sign fill)
UUIDInput(rnd) ==
  IF rnd.ok THEN rnd.bytes
  ELSE [k \in 1..16 |->
          IF k <= 8 THEN rnd.nanos[k] ELSE IF rnd.nanos[8] >= 128 THEN 255 ELSE 0]

\* C9: for the random bytes and for the timestamp fallback alike, the request
\* id is 36 characters, lowercase hex in the 8-4-4-4-12 layout with hyphens
\* at positions 9, 14, 19 and 24; byte 6 has high nibble 4, byte 8 has top
\* bits 10, and every other bit of the 16 input bytes is unchanged.
C9_UUID ==
  \A i \in Reqs :
    pc[i] \in (Building \ {"snapshot", "generate"}) \cup Forwarding =>
      LET u == loc[i].requestID
          in == UUIDInput(env[i].rnd)
      IN /\ Len(u) = 36
         /\ \A k \in 1..36 : IF k \in HyphenPositions THEN u[k] = "-" ELSE IsLowerHex(u[k])
         /\ UUIDByte(u, 7) \div 16 = 4
         /\ UUIDByte(u, 9) \div 64 = 2
         /\ UUIDByte(u, 7) % 16 = in[7] % 16
         /\ UUIDByte(u, 9) % 64 = in[9] % 64
         /\ \A k \in (1..16) \ {7, 9} : UUIDByte(u, k) = in[k]

C9_Witness ==
  \E i \in Reqs :
    /\ pc[i] = "assemble"
    /\ ~env[i].rnd.ok
    /\ env[i].rnd.nanos = SampleNanos
    /\ loc[i].requestID = <<"1","5","4","d","e","0","1","7","-","4","b","f","e","-","4","2","1","8","-","8","0","0","0","-","0","0","0","0","0","0","0","0","0","0","0","0">>

====
